---- MODULE Spec2Model ----
(***************************************************************************)
(* Model of the weak reference pool of the Golua runtime                   *)
(* (runtime/internal/weakref): UnsafePool, weakRef, wiface and the sort of *)
(* pending values, together with the part of the Go garbage collector the  *)
(* pool relies on (runtime.SetFinalizer, the finalizer queue and the       *)
(* reclamation of memory).                                                 *)
(*                                                                         *)
(* Every method of the pool runs its critical section under p.mx, so each  *)
(* method is one atomic action.  The finalizer goroutine of Go is a second *)
(* thread: between the moment the collector finds a value unreachable and  *)
(* queues its finalizer (GCSchedule) and the moment addPendingGC runs, the *)
(* owner of the pool may call any method.                                  *)
(***************************************************************************)
EXTENDS Integers, Sequences, FiniteSets, TLC

\* Bounds of the model: the calls of Mark and the weakRef records allocated.
MaxMark == 2
MaxRefs == 2

VARIABLES
    heap,           \* Go heap: object -> "unborn" | "live" | "freed"
    held,           \* objects the owner of the pool holds a strong reference to
    fin,            \* objects with a finalizer set (runtime.SetFinalizer)
    sched,          \* objects whose finalizer the collector has queued
    refs,           \* every weakRef record allocated so far, by record number
    weakrefs,       \* UnsafePool.weakrefs: id -> record number, 0 for nil
    pending,        \* UnsafePool.pending
    lastMarkOrder,  \* UnsafePool.lastMarkOrder
    op,             \* the last call and what it returned
    lastGet,        \* per object, the record the last Get(object) returned
    retDead,        \* mark orders returned so far by ExtractDeadMarked
    retAll,         \* mark orders returned so far by ExtractAllMarked
    flags,          \* Pool with MarkFlags: record number -> flags of the weakRef
    pendingRelease, \* Pool with MarkFlags: the values pending release
    retDeadRelease, \* mark orders returned so far by ExtractPendingRelease
    retAllRelease,  \* mark orders returned so far by ExtractAllMarkedRelease
    mem,            \* statement level: the fields of the UnsafePool and its weakRefs
    mx,             \* statement level: who holds p.mx, "free" when nobody does
    pc,             \* statement level: where each goroutine is in its method
    loc,            \* statement level: the local variables of each goroutine
    kc,             \* ConstantCompiler: its fields and the constants its builder holds
    kctl,           \* ConstantCompiler: where CompileQueue is, and its locals
    kop             \* ConstantCompiler: the last call of QueueConstant and its result

\* The state of UnsafePool and of the Go runtime around it.
poolVars == <<heap, held, fin, sched, refs, weakrefs, pending, lastMarkOrder,
              op, lastGet, retDead, retAll>>
\* What the Pool interface with MarkFlags adds to it.
flagVars == <<flags, pendingRelease, retDeadRelease, retAllRelease>>
\* The pool executed statement by statement, by the goroutine of the owner
\* and by the finalizer goroutine of Go.
mxVars == <<mem, mx, pc, loc>>
\* The ConstantCompiler of package ircomp, which shares nothing with the pool.
kcVars == <<kc, kctl, kop>>
vars == <<poolVars, flagVars, mxVars, kcVars>>

\* The heap objects: 1 and 2 live at distinct addresses from the start; 3 is a
\* later allocation, of another type, that reuses the address of object 1.
Obj == {1, 2, 3}
ObjAddr(o) == IF o = 3 THEN 1 ELSE o
ObjType(o) == IF o = 3 THEN 2 ELSE 1
Addr == {ObjAddr(o) : o \in Obj}

\* wrStatus
wrAlive == "alive"
wrDead == "dead"
wrResurrected == "resurrected"

\* An interface value: type word and data word.
IfaceOf(o) == [typ |-> ObjType(o), adr |-> ObjAddr(o)]
NilIface == [typ |-> 0, adr |-> 0]

\* getwiface: the two words of the interface, copied into a [2]uintptr.
getwiface(v) == <<v.typ, v.adr>>
\* wiface.id: the address containing the interface data.
id(w) == w[2]
\* wiface.iface: the two words read back as an interface value.
iface(w) == [typ |-> w[1], adr |-> w[2]]

\* The objects alive at an address, and the live objects an interface value
\* really denotes (none when it dangles or has the type of an earlier
\* occupant of the address).
LiveAt(a) == {o \in Obj : heap[o] = "live" /\ ObjAddr(o) = a}
Deref(v) == {o \in Obj : heap[o] = "live" /\ IfaceOf(o) = v}

\* sortabelVals
Len2(vs) == Len(vs)
LessAscending(vs, i, j) == vs[i].order < vs[j].order
Less(vs, i, j) == vs[i].order > vs[j].order
Swap(vs, i, j) == [vs EXCEPT ![i] = vs[j], ![j] = vs[i]]
vals(vs) == [i \in 1..Len(vs) |-> vs[i].val]
orders(vs) == [i \in 1..Len(vs) |-> vs[i].order]

\* sort.Sort on a short slice: insertion sort driven by Less and Swap.
RECURSIVE SiftDown(_, _)
SiftDown(vs, j) ==
    IF j > 1 /\ Less(vs, j, j - 1) THEN SiftDown(Swap(vs, j, j - 1), j - 1) ELSE vs
RECURSIVE SortFrom(_, _)
SortFrom(vs, i) == IF i > Len2(vs) THEN vs ELSE SortFrom(SiftDown(vs, i), i + 1)
Sort(vs) == SortFrom(vs, 2)

\* The pre-finalization hook: keeps the list and its order.
runPrefinalizers(l) == l

Range(s) == {s[i] : i \in 1..Len(s)}
InPending(o) == \E i \in 1..Len(pending) : pending[i].val = IfaceOf(o)
InPendingRelease(o) == \E i \in 1..Len(pendingRelease) : pendingRelease[i].val = IfaceOf(o)
\* A local variable of a goroutine refers to o: the slice an extraction is
\* building, or the interface value Value is about to return.
InLocals(o) ==
    \E t \in DOMAIN loc :
        \/ \E i \in 1..Len(loc[t].vs) : loc[t].vs[i].val = IfaceOf(o)
        \/ loc[t].res = <<IfaceOf(o)>>
\* Reachable from a root: the owner, a pending queue, the finalizer queue or
\* the stack of a goroutine.
Reachable(o) ==
    o \in held \/ o \in sched \/ InPending(o) \/ InPendingRelease(o) \/ InLocals(o)

\* The goroutines, and the local variables of a goroutine that is in no method.
Threads == {"owner", "finalizer"}
NoLocals == [v |-> 0, r |-> 0, vs |-> <<>>, res |-> <<>>, expect |-> <<>>]

Call(name, arg, ret, ord) == [name |-> name, arg |-> arg, ret |-> ret, ord |-> ord]
\* No call of the pool is the last thing that happened.
Idle == Call("idle", 0, 0, <<>>)

\* No index: the key is not in constantMap.
NoIndex == -1
\* Before NewConstantCompiler; CompileQueue not running; no QueueConstant yet.
NoCompiler ==
    [builder |-> <<>>, constants |-> <<>>, constantMap |-> <<>>,
     compiledCount |-> 0, queue |-> <<>>, offset |-> 0]
NoCompile == [at |-> "idle", batch |-> <<>>, ki |-> 0, instrs |-> <<>>]
NoQueueing == [call |-> "none", ki |-> 0, idx |-> NoIndex]

Init ==
    /\ heap = [o \in Obj |-> IF o = 3 THEN "unborn" ELSE "live"]
    /\ held = Obj \ {3}
    /\ fin = {}
    /\ sched = {}
    /\ refs = <<>>
    /\ weakrefs = [a \in Addr |-> 0]
    /\ pending = <<>>
    /\ lastMarkOrder = 0
    /\ op = Idle
    /\ lastGet = [o \in Obj |-> 0]
    /\ retDead = {}
    /\ retAll = {}
    /\ flags = [i \in 1..MaxRefs |-> 0]
    /\ pendingRelease = <<>>
    /\ retDeadRelease = {}
    /\ retAllRelease = {}
    /\ mem = [weakrefs |-> [a \in Addr |-> 0], refs |-> <<>>, pending |-> <<>>,
              lastMarkOrder |-> 0]
    /\ mx = "free"
    /\ pc = [t \in Threads |-> "idle"]
    /\ loc = [t \in Threads |-> NoLocals]
    /\ kc = NoCompiler
    /\ kctl = NoCompile
    /\ kop = NoQueueing

(***************************************************************************)
(* The Go runtime: allocation, the owner dropping a reference, the         *)
(* collector queueing a finalizer or reclaiming memory.                    *)
(***************************************************************************)
Alloc(o) ==
    /\ heap[o] = "unborn"
    /\ LiveAt(ObjAddr(o)) = {}
    /\ heap' = [heap EXCEPT ![o] = "live"]
    /\ held' = held \cup {o}
    /\ op' = Idle
    /\ UNCHANGED <<fin, sched, refs, weakrefs, pending, lastMarkOrder,
                   lastGet, retDead, retAll>>

Drop(o) ==
    /\ o \in held
    /\ held' = held \ {o}
    /\ op' = Idle
    /\ UNCHANGED <<heap, fin, sched, refs, weakrefs, pending, lastMarkOrder,
                   lastGet, retDead, retAll>>

\* The collector finds o unreachable and o has a finalizer: the finalizer is
\* taken off the object and queued; the queue keeps o alive until it ran.
GCSchedule(o) ==
    /\ heap[o] = "live"
    /\ ~Reachable(o)
    /\ o \in fin
    /\ fin' = fin \ {o}
    /\ sched' = sched \cup {o}
    /\ op' = Idle
    /\ UNCHANGED <<heap, held, refs, weakrefs, pending, lastMarkOrder,
                   lastGet, retDead, retAll>>

\* The collector finds o unreachable and o has no finalizer: its memory is
\* reclaimed.
GCFree(o) ==
    /\ heap[o] = "live"
    /\ ~Reachable(o)
    /\ o \notin fin
    /\ heap' = [heap EXCEPT ![o] = "freed"]
    /\ op' = Idle
    /\ UNCHANGED <<held, fin, sched, refs, weakrefs, pending, lastMarkOrder,
                   lastGet, retDead, retAll>>

(***************************************************************************)
(* UnsafePool                                                              *)
(***************************************************************************)
orderedVal(r) == [val |-> iface(r.w), order |-> r.markOrder]

\* UnsafePool.get: r := p.weakrefs[id]; a new weakRef is allocated, registered
\* and its value given the finalizer only when r == nil.
RegisteredNever(i) == 0
Registered(i) == weakrefs[i]
GetMiss(v) == Registered(id(getwiface(v))) = 0
GetRef(v) == IF GetMiss(v) THEN Len(refs) + 1 ELSE Registered(id(getwiface(v)))
RefsAfterGet(v) ==
    IF GetMiss(v)
    THEN Append(refs, [w |-> getwiface(v), markOrder |-> 0, status |-> wrAlive])
    ELSE refs
WeakrefsAfterGet(v) ==
    IF GetMiss(v) THEN [weakrefs EXCEPT ![id(getwiface(v))] = GetRef(v)] ELSE weakrefs
FinAfterGet(v) == IF GetMiss(v) THEN fin \cup LiveAt(v.adr) ELSE fin

Get(o) ==
    /\ o \in held
    /\ LET v == IfaceOf(o) IN
        /\ GetMiss(v) => Len(refs) < MaxRefs
        /\ refs' = RefsAfterGet(v)
        /\ weakrefs' = WeakrefsAfterGet(v)
        /\ fin' = FinAfterGet(v)
        /\ op' = Call("Get", o, GetRef(v), <<>>)
        /\ lastGet' = [lastGet EXCEPT ![o] = GetRef(v)]
    /\ UNCHANGED <<heap, held, sched, pending, lastMarkOrder, retDead, retAll>>

\* p.lastMarkOrder++ in Mark.
StaleOrder == lastMarkOrder
NextOrder == lastMarkOrder + 1

\* UnsafePool.Mark, whatever the value of the counter.
MarkBody(o) ==
    /\ o \in held
    /\ LET v == IfaceOf(o) IN
        /\ GetMiss(v) => Len(refs) < MaxRefs
        /\ lastMarkOrder' = NextOrder
        /\ refs' = [RefsAfterGet(v) EXCEPT ![GetRef(v)].markOrder = NextOrder]
        /\ weakrefs' = WeakrefsAfterGet(v)
        /\ fin' = FinAfterGet(v)
        /\ op' = Call("Mark", o, 0, <<>>)
    /\ UNCHANGED <<heap, held, sched, pending, lastGet, retDead, retAll>>

Mark(o) == lastMarkOrder < MaxMark /\ MarkBody(o)
\* One Mark more than the bound, for the runs that need a third mark.
MarkBeyond(o) == lastMarkOrder = MaxMark /\ MarkBody(o)

\* p.pending = nil in ExtractDeadMarked.
PendingKeptDead == pending
PendingAfterDead == <<>>

ExtractDeadMarked ==
    /\ IF pending = <<>>
       THEN /\ op' = Call("ExtractDeadMarked", 0, <<>>, <<>>)
            /\ UNCHANGED <<pending, held, retDead>>
       ELSE LET sorted == Sort(pending)
                ret == runPrefinalizers(vals(sorted))
            IN  /\ pending' = PendingAfterDead
                /\ op' = Call("ExtractDeadMarked", 0, ret, orders(sorted))
                /\ held' = held \cup UNION {Deref(v) : v \in Range(ret)}
                /\ retDead' = retDead \cup Range(orders(sorted))
    /\ UNCHANGED <<heap, fin, sched, refs, weakrefs, lastMarkOrder, lastGet, retAll>>

\* The ids whose weakRef is in the registry with a positive mark order.
MarkedIds == {a \in Addr : weakrefs[a] # 0 /\ refs[weakrefs[a]].markOrder > 0}
\* The orders in which "for _, r := range p.weakrefs" can visit them.
Perms(S) ==
    {s \in [1..Cardinality(S) -> S] : \A i, j \in 1..Cardinality(S) : i # j => s[i] # s[j]}

\* r.markOrder = 0 in ExtractAllMarked.
KeepMark(r) == r
ClearMark(r) == [r EXCEPT !.markOrder = 0]
\* p.pending = nil in ExtractAllMarked.
PendingKeptAll == pending
PendingAfterAll == <<>>

ExtractAllMarked ==
    \E visit \in Perms(MarkedIds) :
        LET marked == pending \o [i \in 1..Len(visit) |-> orderedVal(refs[weakrefs[visit[i]]])]
            sorted == Sort(marked)
            ret == runPrefinalizers(vals(sorted))
        IN  /\ refs' = [i \in 1..Len(refs) |->
                          IF \E a \in MarkedIds : weakrefs[a] = i
                          THEN ClearMark(refs[i]) ELSE refs[i]]
            /\ fin' = fin \ UNION {LiveAt(a) : a \in MarkedIds}
            /\ pending' = PendingAfterAll
            /\ op' = Call("ExtractAllMarked", 0, ret, orders(sorted))
            /\ held' = held \cup UNION {Deref(v) : v \in Range(ret)}
            /\ retAll' = retAll \cup Range(orders(sorted))
            /\ UNCHANGED <<heap, sched, weakrefs, lastMarkOrder, lastGet, retDead>>

\* if r.status == wrResurrected in addPendingGC.
WasResurrectedNever(r) == FALSE
WasResurrected(r) == r.status = wrResurrected

\* if r.markOrder > 0 in addPendingGC.
IsMarkedAlways(r) == TRUE
IsMarked(r) == r.markOrder > 0

\* delete(p.weakrefs, id) in addPendingGC.
RegistryKept(i) == weakrefs
RegistryAfterDeath(i) == [weakrefs EXCEPT ![i] = 0]

\* if r == nil { return } in addPendingGC: no finalizer is set.
FinRearmed(o) == fin \cup LiveAt(ObjAddr(o))
FinAfterReturn(o) == fin

\* p.addPendingGC(o), from p.mx.Lock() to the deferred p.mx.Unlock().
addPendingGCBody(o) ==
    /\ op' = Call("addPendingGC", o, 0, <<>>)
    /\ LET v == IfaceOf(o)
           i == id(getwiface(v))
           r == weakrefs[i]
       IN  IF r = 0
           THEN /\ fin' = FinAfterReturn(o)
                /\ UNCHANGED <<refs, weakrefs, pending>>
           ELSE IF WasResurrected(refs[r])
           THEN /\ refs' = [refs EXCEPT ![r].status = wrAlive]
                /\ fin' = fin \cup LiveAt(v.adr)
                /\ UNCHANGED <<weakrefs, pending>>
           ELSE /\ refs' = [refs EXCEPT ![r].status = wrDead]
                /\ pending' = IF IsMarked(refs[r])
                              THEN Append(pending, [val |-> v, order |-> refs[r].markOrder])
                              ELSE pending
                /\ weakrefs' = RegistryAfterDeath(i)
                /\ UNCHANGED fin
    /\ UNCHANGED <<heap, held, lastMarkOrder, lastGet, retDead, retAll>>

\* The finalizer goroutine runs the queued finalizer of o: p.addPendingGC(o).
addPendingGC(o) ==
    /\ o \in sched
    /\ sched' = sched \ {o}
    /\ addPendingGCBody(o)

\* if r.status == wrDead in Value.
IsDeadNever(r) == FALSE
IsDead(r) == r.status = wrDead

\* weakRef.Value on the record the owner got from its last Get(o).
Value(o) ==
    /\ lastGet[o] # 0
    /\ LET r == lastGet[o] IN
        IF IsDead(refs[r])
        THEN /\ op' = Call("Value", o, NilIface, <<>>)
             /\ UNCHANGED <<refs, held>>
        ELSE /\ refs' = [refs EXCEPT ![r].status = wrResurrected]
             /\ op' = Call("Value", o, iface(refs[r].w), <<>>)
             /\ held' = held \cup Deref(iface(refs[r].w))
    /\ UNCHANGED <<heap, fin, sched, weakrefs, pending, lastMarkOrder,
                   lastGet, retDead, retAll>>

\* UnsafePool has no flags and one pending queue.
NoFlags == UNCHANGED flagVars
\* The call runs as a whole: its critical section is one step.
Whole == UNCHANGED mxVars
\* The pool does not touch the ConstantCompiler.
KeepsCompiler == UNCHANGED kcVars

Next ==
    \/ \E o \in Obj : Alloc(o) /\ NoFlags /\ Whole /\ KeepsCompiler
    \/ \E o \in Obj : Drop(o) /\ NoFlags /\ Whole /\ KeepsCompiler
    \/ \E o \in Obj : GCSchedule(o) /\ NoFlags /\ Whole /\ KeepsCompiler
    \/ \E o \in Obj : GCFree(o) /\ NoFlags /\ Whole /\ KeepsCompiler
    \/ \E o \in Obj : Get(o) /\ NoFlags /\ Whole /\ KeepsCompiler
    \/ \E o \in Obj : Mark(o) /\ NoFlags /\ Whole /\ KeepsCompiler
    \/ \E o \in Obj : Value(o) /\ NoFlags /\ Whole /\ KeepsCompiler
    \/ \E o \in Obj : addPendingGC(o) /\ NoFlags /\ Whole /\ KeepsCompiler
    \/ ExtractDeadMarked /\ NoFlags /\ Whole /\ KeepsCompiler
    \/ ExtractAllMarked /\ NoFlags /\ Whole /\ KeepsCompiler

Spec == Init /\ [][Next]_vars

NextDeep == Next \/ \E o \in Obj : MarkBeyond(o) /\ NoFlags /\ Whole /\ KeepsCompiler
SpecDeep == Init /\ [][NextDeep]_vars

(***************************************************************************)
(* addPendingGC called on a value whose token has no entry in the          *)
(* registry.  The pool arms the finalizer and registers the weakRef        *)
(* together and the callback removes the entry only after Go took the      *)
(* finalizer off the value, so that the calls above never make such a      *)
(* call; here it is made on any live value the owner holds.                *)
(***************************************************************************)
addPendingGCSpurious(o) ==
    /\ o \in held
    /\ o \notin sched
    /\ GetMiss(IfaceOf(o))
    /\ addPendingGCBody(o)
    /\ UNCHANGED sched

NextSpurious == Next \/ \E o \in Obj : addPendingGCSpurious(o) /\ NoFlags /\ Whole /\ KeepsCompiler
SpecSpurious == Init /\ [][NextSpurious]_vars

(***************************************************************************)
(* Get and Mark on a value that is not a pointer (an int, a bool, a        *)
(* string in an interface{}): get() finds no weakRef at the address of the *)
(* boxed value and calls runtime.SetFinalizer on it, which ends the        *)
(* program with "runtime.SetFinalizer: first argument is ..., not          *)
(* pointer".                                                               *)
(***************************************************************************)
\* An interface value holding a non-pointer: its own type, and a data word
\* that is the address of no value the registry knows.
NonPointer == [typ |-> 3, adr |-> 3]
IsPointer(v) == v.typ \in {ObjType(o) : o \in Obj}
\* The program was ended by the runtime.
Crashed == op.name \in {"GetNonPointer", "MarkNonPointer"} /\ op.ret = "throw"

\* What runtime.SetFinalizer(iface, p.addPendingGC) does to the call.
SetFinalizerOutcome(v) == IF IsPointer(v) THEN "armed" ELSE "throw"

GetNonPointer ==
    /\ ~Crashed
    /\ id(getwiface(NonPointer)) \notin Addr
    /\ op' = Call("GetNonPointer", 0, SetFinalizerOutcome(NonPointer), <<>>)
    /\ UNCHANGED <<heap, held, fin, sched, refs, weakrefs, pending, lastMarkOrder,
                   lastGet, retDead, retAll>>

MarkNonPointer ==
    /\ ~Crashed
    /\ lastMarkOrder < MaxMark
    /\ lastMarkOrder' = NextOrder
    /\ id(getwiface(NonPointer)) \notin Addr
    /\ op' = Call("MarkNonPointer", 0, SetFinalizerOutcome(NonPointer), <<>>)
    /\ UNCHANGED <<heap, held, fin, sched, refs, weakrefs, pending,
                   lastGet, retDead, retAll>>

NextNonPointer ==
    \/ ~Crashed /\ Next
    \/ GetNonPointer /\ NoFlags /\ Whole /\ KeepsCompiler
    \/ MarkNonPointer /\ NoFlags /\ Whole /\ KeepsCompiler

SpecNonPointer == Init /\ [][NextNonPointer]_vars

(***************************************************************************)
(* The Pool interface with MarkFlags: Mark(v, flags), a pending queue for  *)
(* each flag, ExtractPendingFinalize, ExtractPendingRelease,               *)
(* ExtractAllMarkedFinalize and ExtractAllMarkedRelease.  The interface    *)
(* declares them; the pool behind them keeps the registry, the mark order, *)
(* the status and the reclamation callback of UnsafePool and adds a flag   *)
(* set to each weakRef and a second pending queue.                         *)
(***************************************************************************)
\* MarkFlags: a bitset.
Finalize == 1
Release == 2
AllFlags == {Finalize, Release}
HasFlag(fl, f) == (fl \div f) % 2 = 1
\* fl | gl
UnionFlags(fl, gl) ==
    (IF HasFlag(fl, Finalize) \/ HasFlag(gl, Finalize) THEN Finalize ELSE 0)
        + (IF HasFlag(fl, Release) \/ HasFlag(gl, Release) THEN Release ELSE 0)
\* fl &^ f: clearing the flag of the extraction only, or (wrongly) every flag.
ClearEveryFlag(fl, f) == 0
ClearFlag(fl, f) == IF HasFlag(fl, f) THEN fl - f ELSE fl
\* The non-empty flag sets Mark is called with.
FlagSets == {Finalize, Release, UnionFlags(Finalize, Release)}

\* Mark(v, flags): as Mark, and the flags are united into those of the weakRef.
MarkFlags(o, fl) ==
    /\ Mark(o)
    /\ flags' = [flags EXCEPT ![GetRef(IfaceOf(o))] = UnionFlags(@, fl)]
    /\ UNCHANGED <<pendingRelease, retDeadRelease, retAllRelease>>

\* The queue a dying weakRef with flags fl is pushed onto for flag f.
PushedAlways(q, fl, f, e) == Append(q, e)
Pushed(q, fl, f, e) == IF HasFlag(fl, f) THEN Append(q, e) ELSE q

\* The reclamation callback: nothing for an absent weakRef; Resurrected goes
\* back to Alive and the callback is armed again; otherwise the weakRef dies,
\* its value is pushed onto the queue of each of its flags and it leaves the
\* registry.
Reclaim(o) ==
    /\ o \in sched
    /\ sched' = sched \ {o}
    /\ op' = Call("Reclaim", o, 0, <<>>)
    /\ LET v == IfaceOf(o)
           i == id(getwiface(v))
           r == weakrefs[i]
       IN  IF r = 0
           THEN UNCHANGED <<refs, weakrefs, pending, pendingRelease, fin>>
           ELSE IF WasResurrected(refs[r])
           THEN /\ refs' = [refs EXCEPT ![r].status = wrAlive]
                /\ fin' = fin \cup LiveAt(v.adr)
                /\ UNCHANGED <<weakrefs, pending, pendingRelease>>
           ELSE LET e == [val |-> v, order |-> refs[r].markOrder] IN
                /\ refs' = [refs EXCEPT ![r].status = wrDead]
                /\ pending' = Pushed(pending, flags[r], Finalize, e)
                /\ pendingRelease' = Pushed(pendingRelease, flags[r], Release, e)
                /\ weakrefs' = [weakrefs EXCEPT ![i] = 0]
                /\ UNCHANGED fin
    /\ UNCHANGED <<heap, held, lastMarkOrder, lastGet, retDead, retAll,
                   flags, retDeadRelease, retAllRelease>>

\* ExtractPendingFinalize: the values of the finalize queue, by descending
\* mark order; the queue is cleared.
ExtractPendingFinalize ==
    LET sorted == Sort(pending)
        ret == runPrefinalizers(vals(sorted))
    IN  /\ pending' = <<>>
        /\ op' = Call("ExtractPendingFinalize", 0, ret, orders(sorted))
        /\ held' = held \cup UNION {Deref(v) : v \in Range(ret)}
        /\ retDead' = retDead \cup Range(orders(sorted))
        /\ UNCHANGED <<heap, fin, sched, refs, weakrefs, lastMarkOrder, lastGet,
                       retAll, flagVars>>

\* ExtractPendingRelease: the same for the release queue.
ExtractPendingRelease ==
    LET sorted == Sort(pendingRelease)
        ret == runPrefinalizers(vals(sorted))
    IN  /\ pendingRelease' = <<>>
        /\ op' = Call("ExtractPendingRelease", 0, ret, orders(sorted))
        /\ held' = held \cup UNION {Deref(v) : v \in Range(ret)}
        /\ retDeadRelease' = retDeadRelease \cup Range(orders(sorted))
        /\ UNCHANGED <<heap, fin, sched, refs, weakrefs, lastMarkOrder, lastGet,
                       pending, retDead, retAll, flags, retAllRelease>>

\* The ids whose weakRef is in the registry with flag f.
FlaggedIds(f) == {a \in Addr : weakrefs[a] # 0 /\ HasFlag(flags[weakrefs[a]], f)}
\* What a shutdown drain for flag f returns, given the queue of f: the queue
\* and the value of every registered weakRef with flag f, sorted.
AllFlagged(q, f, visit) ==
    Sort(q \o [i \in 1..Len(visit) |-> orderedVal(refs[weakrefs[visit[i]]])])
\* The flags after the drain for flag f: f is cleared on the weakRefs drained.
FlagsCleared(f) ==
    [i \in DOMAIN flags |->
        IF \E a \in FlaggedIds(f) : weakrefs[a] = i THEN ClearFlag(flags[i], f) ELSE flags[i]]

\* ExtractAllMarkedFinalize: every value marked for finalizing, reclaimed or
\* not; their Finalize mark is cleared and the finalize queue drained.
ExtractAllMarkedFinalize ==
    \E visit \in Perms(FlaggedIds(Finalize)) :
        LET sorted == AllFlagged(pending, Finalize, visit)
            ret == runPrefinalizers(vals(sorted))
        IN  /\ flags' = FlagsCleared(Finalize)
            /\ pending' = <<>>
            /\ op' = Call("ExtractAllMarkedFinalize", 0, ret, orders(sorted))
            /\ held' = held \cup UNION {Deref(v) : v \in Range(ret)}
            /\ retAll' = retAll \cup Range(orders(sorted))
            /\ UNCHANGED <<heap, fin, sched, refs, weakrefs, lastMarkOrder, lastGet,
                           retDead, pendingRelease, retDeadRelease, retAllRelease>>

\* ExtractAllMarkedRelease: the same for the Release mark and queue.
ExtractAllMarkedRelease ==
    \E visit \in Perms(FlaggedIds(Release)) :
        LET sorted == AllFlagged(pendingRelease, Release, visit)
            ret == runPrefinalizers(vals(sorted))
        IN  /\ flags' = FlagsCleared(Release)
            /\ pendingRelease' = <<>>
            /\ op' = Call("ExtractAllMarkedRelease", 0, ret, orders(sorted))
            /\ held' = held \cup UNION {Deref(v) : v \in Range(ret)}
            /\ retAllRelease' = retAllRelease \cup Range(orders(sorted))
            /\ UNCHANGED <<heap, fin, sched, refs, weakrefs, lastMarkOrder, lastGet,
                           pending, retDead, retAll, retDeadRelease>>

NextFlags ==
    \/ \E o \in Obj : Drop(o) /\ NoFlags /\ Whole /\ KeepsCompiler
    \/ \E o \in Obj : GCSchedule(o) /\ NoFlags /\ Whole /\ KeepsCompiler
    \/ \E o \in Obj : GCFree(o) /\ NoFlags /\ Whole /\ KeepsCompiler
    \/ \E o \in Obj : Get(o) /\ NoFlags /\ Whole /\ KeepsCompiler
    \/ \E o \in Obj : Value(o) /\ NoFlags /\ Whole /\ KeepsCompiler
    \/ \E o \in Obj, fl \in FlagSets : MarkFlags(o, fl) /\ Whole /\ KeepsCompiler
    \/ \E o \in Obj : Reclaim(o) /\ Whole /\ KeepsCompiler
    \/ ExtractPendingFinalize /\ Whole /\ KeepsCompiler
    \/ ExtractPendingRelease /\ Whole /\ KeepsCompiler
    \/ ExtractAllMarkedFinalize /\ Whole /\ KeepsCompiler
    \/ ExtractAllMarkedRelease /\ Whole /\ KeepsCompiler

SpecFlags == Init /\ [][NextFlags]_vars

(***************************************************************************)
(* UnsafePool statement by statement.  The owner runs one method of the    *)
(* pool at a time; the finalizer goroutine of Go runs addPendingGC for the *)
(* values whose finalizer is queued, at any moment.  mem holds the fields  *)
(* the statements read and write.  The variables of the model above keep   *)
(* the state the calls produce when each of them runs as a whole, and take *)
(* the step of a call at the moment it releases the mutex.                 *)
(***************************************************************************)
\* What the statements have made of the pool, in the shape of the pool the
\* whole calls have produced.
PoolState ==
    [weakrefs |-> weakrefs, refs |-> refs, pending |-> pending,
     lastMarkOrder |-> lastMarkOrder]

\* p.mx.Lock()
Lock(t) == mx = "free" /\ mx' = t
\* p.mx.Unlock()
HeldAfterUnlock(t) == t
FreeAfterUnlock(t) == "free"
Unlock(t) == mx = t /\ mx' = FreeAfterUnlock(t)

Goto(t, label) == pc' = [pc EXCEPT ![t] = label]
Return(t) == pc' = [pc EXCEPT ![t] = "idle"] /\ loc' = [loc EXCEPT ![t] = NoLocals]
\* The statement touches the pool only, or the pool and the finalizers.
PoolOnly == UNCHANGED <<poolVars, flagVars>>
PoolAndFin ==
    UNCHANGED <<heap, held, sched, refs, weakrefs, pending, lastMarkOrder,
                op, lastGet, retDead, retAll, flagVars>>

\* UnsafePool.get on the fields m.
get_miss(m, v) == m.weakrefs[id(getwiface(v))] = 0
get_r(m, v) == IF get_miss(m, v) THEN Len(m.refs) + 1 ELSE m.weakrefs[id(getwiface(v))]
get_mem(m, v) ==
    IF get_miss(m, v)
    THEN [m EXCEPT !.refs = Append(@, [w |-> getwiface(v), markOrder |-> 0,
                                       status |-> wrAlive]),
                   !.weakrefs[id(getwiface(v))] = Len(m.refs) + 1]
    ELSE m
get_fin(m, v) == IF get_miss(m, v) THEN fin \cup LiveAt(v.adr) ELSE fin

\* Get
Get_Lock(o) ==
    /\ pc.owner = "idle"
    /\ o \in held
    /\ get_miss(mem, IfaceOf(o)) => Len(mem.refs) < MaxRefs
    /\ Lock("owner")
    /\ Goto("owner", "Get_get")
    /\ loc' = [loc EXCEPT !.owner.v = o]
    /\ UNCHANGED mem
    /\ PoolOnly

Get_get ==
    /\ pc.owner = "Get_get"
    /\ LET v == IfaceOf(loc.owner.v) IN
        /\ mem' = get_mem(mem, v)
        /\ fin' = get_fin(mem, v)
        /\ loc' = [loc EXCEPT !.owner.r = get_r(mem, v)]
    /\ Goto("owner", "Get_Unlock")
    /\ UNCHANGED mx
    /\ PoolAndFin

Get_Unlock ==
    /\ pc.owner = "Get_Unlock"
    /\ Unlock("owner")
    /\ Get(loc.owner.v)
    /\ Return("owner")
    /\ UNCHANGED <<mem, flagVars>>

\* Mark
Mark_Lock(o) ==
    /\ pc.owner = "idle"
    /\ o \in held
    /\ mem.lastMarkOrder < MaxMark
    /\ get_miss(mem, IfaceOf(o)) => Len(mem.refs) < MaxRefs
    /\ Lock("owner")
    /\ Goto("owner", "Mark_get")
    /\ loc' = [loc EXCEPT !.owner.v = o]
    /\ UNCHANGED mem
    /\ PoolOnly

Mark_get ==
    /\ pc.owner = "Mark_get"
    /\ LET v == IfaceOf(loc.owner.v) IN
        /\ mem' = [get_mem(mem, v) EXCEPT
                      !.lastMarkOrder = mem.lastMarkOrder + 1,
                      !.refs[get_r(mem, v)].markOrder = mem.lastMarkOrder + 1]
        /\ fin' = get_fin(mem, v)
    /\ Goto("owner", "Mark_Unlock")
    /\ UNCHANGED <<mx, loc>>
    /\ PoolAndFin

Mark_Unlock ==
    /\ pc.owner = "Mark_Unlock"
    /\ Unlock("owner")
    /\ Mark(loc.owner.v)
    /\ Return("owner")
    /\ UNCHANGED <<mem, flagVars>>

\* Value
Value_Lock(o) ==
    /\ pc.owner = "idle"
    /\ lastGet[o] # 0
    /\ Lock("owner")
    /\ Goto("owner", "Value_status")
    /\ loc' = [loc EXCEPT !.owner.v = o, !.owner.r = lastGet[o]]
    /\ UNCHANGED mem
    /\ PoolOnly

Value_status ==
    /\ pc.owner = "Value_status"
    /\ LET r == loc.owner.r IN
        IF mem.refs[r].status = wrDead
        THEN /\ loc' = [loc EXCEPT !.owner.res = <<NilIface>>]
             /\ UNCHANGED mem
        ELSE /\ mem' = [mem EXCEPT !.refs[r].status = wrResurrected]
             /\ loc' = [loc EXCEPT !.owner.res = <<iface(mem.refs[r].w)>>]
    /\ Goto("owner", "Value_Unlock")
    /\ UNCHANGED mx
    /\ PoolOnly

Value_Unlock ==
    /\ pc.owner = "Value_Unlock"
    /\ Unlock("owner")
    /\ Value(loc.owner.v)
    /\ Return("owner")
    /\ UNCHANGED <<mem, flagVars>>

\* p.pending = nil on the fields m.
LeavePending(m) == m
TakePending(m) == [m EXCEPT !.pending = <<>>]

\* ExtractDeadMarked
ExtractDeadMarked_Lock ==
    /\ pc.owner = "idle"
    /\ Lock("owner")
    /\ Goto("owner", "ExtractDeadMarked_take")
    /\ UNCHANGED <<mem, loc>>
    /\ PoolOnly

\* pending := p.pending; if pending == nil ... ; p.pending = nil
ExtractDeadMarked_take ==
    /\ pc.owner = "ExtractDeadMarked_take"
    /\ loc' = [loc EXCEPT !.owner.vs = mem.pending]
    /\ IF mem.pending = <<>>
       THEN /\ Goto("owner", "ExtractDeadMarked_UnlockNil")
            /\ UNCHANGED mem
       ELSE /\ Goto("owner", "ExtractDeadMarked_Unlock")
            /\ mem' = TakePending(mem)
    /\ UNCHANGED mx
    /\ PoolOnly

\* p.mx.Unlock(); return nil
ExtractDeadMarked_UnlockNil ==
    /\ pc.owner = "ExtractDeadMarked_UnlockNil"
    /\ Unlock("owner")
    /\ ExtractDeadMarked
    /\ Return("owner")
    /\ UNCHANGED <<mem, flagVars>>

ExtractDeadMarked_Unlock ==
    /\ pc.owner = "ExtractDeadMarked_Unlock"
    /\ Unlock("owner")
    /\ ExtractDeadMarked
    /\ loc' = [loc EXCEPT !.owner.expect = op'.ret]
    /\ Goto("owner", "ExtractDeadMarked_Sort")
    /\ UNCHANGED <<mem, flagVars>>

\* sort.Sort(sortablePending(pending))
ExtractDeadMarked_Sort ==
    /\ pc.owner = "ExtractDeadMarked_Sort"
    /\ loc' = [loc EXCEPT !.owner.vs = Sort(@)]
    /\ Goto("owner", "ExtractDeadMarked_return")
    /\ UNCHANGED <<mem, mx>>
    /\ PoolOnly

\* return runPrefinalizers(vals(pending))
ExtractDeadMarked_return ==
    /\ pc.owner = "ExtractDeadMarked_return"
    /\ Return("owner")
    /\ UNCHANGED <<mem, mx>>
    /\ PoolOnly

\* ExtractAllMarked
ExtractAllMarked_Lock ==
    /\ pc.owner = "idle"
    /\ Lock("owner")
    /\ Goto("owner", "ExtractAllMarked_start")
    /\ UNCHANGED <<mem, loc>>
    /\ PoolOnly

\* marked := p.pending
ExtractAllMarked_start ==
    /\ pc.owner = "ExtractAllMarked_start"
    /\ loc' = [loc EXCEPT !.owner.vs = mem.pending]
    /\ Goto("owner", "ExtractAllMarked_range")
    /\ UNCHANGED <<mem, mx>>
    /\ PoolOnly

\* The ids the range over p.weakrefs has still to collect.
StillMarked(m) == {a \in Addr : m.weakrefs[a] # 0 /\ m.refs[m.weakrefs[a]].markOrder > 0}

\* One iteration of the range that finds r.markOrder > 0.
ExtractAllMarked_range ==
    /\ pc.owner = "ExtractAllMarked_range"
    /\ \E a \in StillMarked(mem) :
        LET r == mem.weakrefs[a] IN
        /\ loc' = [loc EXCEPT !.owner.vs = Append(@, orderedVal(mem.refs[r]))]
        /\ mem' = [mem EXCEPT !.refs[r].markOrder = 0]
        /\ fin' = fin \ LiveAt(a)
    /\ UNCHANGED <<mx, pc>>
    /\ PoolAndFin

\* The range is over; p.pending = nil
ExtractAllMarked_clear ==
    /\ pc.owner = "ExtractAllMarked_range"
    /\ StillMarked(mem) = {}
    /\ mem' = TakePending(mem)
    /\ Goto("owner", "ExtractAllMarked_Unlock")
    /\ UNCHANGED <<mx, loc>>
    /\ PoolOnly

ExtractAllMarked_Unlock ==
    /\ pc.owner = "ExtractAllMarked_Unlock"
    /\ Unlock("owner")
    /\ ExtractAllMarked
    /\ loc' = [loc EXCEPT !.owner.expect = op'.ret]
    /\ Goto("owner", "ExtractAllMarked_Sort")
    /\ UNCHANGED <<mem, flagVars>>

\* sort.Sort(sortablePending(marked))
ExtractAllMarked_Sort ==
    /\ pc.owner = "ExtractAllMarked_Sort"
    /\ loc' = [loc EXCEPT !.owner.vs = Sort(@)]
    /\ Goto("owner", "ExtractAllMarked_return")
    /\ UNCHANGED <<mem, mx>>
    /\ PoolOnly

\* return runPrefinalizers(marked.vals())
ExtractAllMarked_return ==
    /\ pc.owner = "ExtractAllMarked_return"
    /\ Return("owner")
    /\ UNCHANGED <<mem, mx>>
    /\ PoolOnly

\* addPendingGC, on the finalizer goroutine.
addPendingGC_Lock(o) ==
    /\ pc.finalizer = "idle"
    /\ o \in sched
    /\ Lock("finalizer")
    /\ Goto("finalizer", "addPendingGC_body")
    /\ loc' = [loc EXCEPT !.finalizer.v = o]
    /\ UNCHANGED mem
    /\ PoolOnly

addPendingGC_body ==
    /\ pc.finalizer = "addPendingGC_body"
    /\ LET v == IfaceOf(loc.finalizer.v)
           i == id(getwiface(v))
           r == mem.weakrefs[i]
       IN  IF r = 0
           THEN UNCHANGED <<mem, fin>>
           ELSE IF mem.refs[r].status = wrResurrected
           THEN /\ mem' = [mem EXCEPT !.refs[r].status = wrAlive]
                /\ fin' = fin \cup LiveAt(v.adr)
           ELSE /\ mem' = [mem EXCEPT
                             !.refs[r].status = wrDead,
                             !.pending = IF mem.refs[r].markOrder > 0
                                         THEN Append(@, [val |-> v, order |-> mem.refs[r].markOrder])
                                         ELSE @,
                             !.weakrefs[i] = 0]
                /\ UNCHANGED fin
    /\ Goto("finalizer", "addPendingGC_Unlock")
    /\ UNCHANGED <<mx, loc>>
    /\ PoolAndFin

addPendingGC_Unlock ==
    /\ pc.finalizer = "addPendingGC_Unlock"
    /\ Unlock("finalizer")
    /\ addPendingGC(loc.finalizer.v)
    /\ Return("finalizer")
    /\ UNCHANGED <<mem, flagVars>>

\* The owner drops a reference between two calls, never inside one.
OwnerIdle == pc.owner = "idle"

NextMx ==
    \/ \E o \in Obj : OwnerIdle /\ Drop(o) /\ NoFlags /\ Whole /\ KeepsCompiler
    \/ \E o \in Obj : GCSchedule(o) /\ NoFlags /\ Whole /\ KeepsCompiler
    \/ \E o \in Obj : GCFree(o) /\ NoFlags /\ Whole /\ KeepsCompiler
    \/ \E o \in Obj : Get_Lock(o) /\ KeepsCompiler
    \/ Get_get /\ KeepsCompiler
    \/ Get_Unlock /\ KeepsCompiler
    \/ \E o \in Obj : Mark_Lock(o) /\ KeepsCompiler
    \/ Mark_get /\ KeepsCompiler
    \/ Mark_Unlock /\ KeepsCompiler
    \/ \E o \in Obj : Value_Lock(o) /\ KeepsCompiler
    \/ Value_status /\ KeepsCompiler
    \/ Value_Unlock /\ KeepsCompiler
    \/ ExtractDeadMarked_Lock /\ KeepsCompiler
    \/ ExtractDeadMarked_take /\ KeepsCompiler
    \/ ExtractDeadMarked_UnlockNil /\ KeepsCompiler
    \/ ExtractDeadMarked_Unlock /\ KeepsCompiler
    \/ ExtractDeadMarked_Sort /\ KeepsCompiler
    \/ ExtractDeadMarked_return /\ KeepsCompiler
    \/ ExtractAllMarked_Lock /\ KeepsCompiler
    \/ ExtractAllMarked_start /\ KeepsCompiler
    \/ ExtractAllMarked_range /\ KeepsCompiler
    \/ ExtractAllMarked_clear /\ KeepsCompiler
    \/ ExtractAllMarked_Unlock /\ KeepsCompiler
    \/ ExtractAllMarked_Sort /\ KeepsCompiler
    \/ ExtractAllMarked_return /\ KeepsCompiler
    \/ \E o \in Obj : addPendingGC_Lock(o) /\ KeepsCompiler
    \/ addPendingGC_body /\ KeepsCompiler
    \/ addPendingGC_Unlock /\ KeepsCompiler

SpecMx == Init /\ [][NextMx]_vars

(***************************************************************************)
(* ConstantCompiler (package ircomp).  A constant is known by its index ki *)
(* in the table kc.constants.  Compiling a Code constant compiles its      *)
(* instructions, each of which may call QueueConstant on a constant it     *)
(* refers to; a constant is given here as the sequence of the constants    *)
(* its instructions queue, empty for a Float, Int, Bool, String or Nil.    *)
(* kc.builder holds the constants added to the unit, each named by its ki. *)
(***************************************************************************)
\* Bounds: the constants of a table, the QueueConstant calls of one constant.
MaxConst == 3
MaxInstr == 2

Keys == 1..MaxConst
InstrSeqs == UNION {[1..n -> Keys] : n \in 0..MaxInstr}
ConstantTables == [Keys -> InstrSeqs]

\* NewConstantCompiler(constants, cc): an empty constantMap, everything else
\* zero; the builder has no constant yet.
NewConstantCompiler(constants) ==
    /\ kc = NoCompiler
    /\ kc' = [builder |-> <<>>, constants |-> constants,
              constantMap |-> [k \in Keys |-> NoIndex],
              compiledCount |-> 0, queue |-> <<>>, offset |-> 0]
    /\ UNCHANGED <<kctl, kop>>

\* kc.offset++ in QueueConstant.
OffsetKept(k) == k.offset
OffsetAfterQueueing(k) == k.offset + 1

\* QueueConstant(ki): the compiler after the call, and the index returned.
Queued(k, ki) == k.constantMap[ki] # NoIndex
QueueConstant(k, ki) ==
    IF Queued(k, ki)
    THEN k
    ELSE [k EXCEPT !.constantMap[ki] = k.offset,
                   !.offset = OffsetAfterQueueing(k),
                   !.queue = Append(@, ki)]
QueueConstantIndex(k, ki) ==
    IF Queued(k, ki) THEN k.constantMap[ki] ELSE QueueConstant(k, ki).offset - 1

Created == kc # NoCompiler

\* The program calls QueueConstant(ki) while CompileQueue is not running.
QueueConstantCall(ki) ==
    /\ Created
    /\ kctl.at = "idle"
    /\ kc' = QueueConstant(kc, ki)
    /\ kop' = [call |-> "QueueConstant", ki |-> ki, idx |-> QueueConstantIndex(kc, ki)]
    /\ UNCHANGED kctl

\* The program calls CompileQueue.
CompileQueue_call ==
    /\ Created
    /\ kctl.at = "idle"
    /\ kctl' = [kctl EXCEPT !.at = "for"]
    /\ kop' = [call |-> "CompileQueue", ki |-> 0, idx |-> NoIndex]
    /\ UNCHANGED kc

\* for kc.queue != nil { queue := kc.queue; kc.queue = nil
CompileQueue_for ==
    /\ kctl.at = "for"
    /\ kc.queue # <<>>
    /\ kctl' = [kctl EXCEPT !.at = "range", !.batch = kc.queue]
    /\ kc' = [kc EXCEPT !.queue = <<>>]
    /\ UNCHANGED kop

\* return kc.builder.GetUnit()
CompileQueue_return ==
    /\ kctl.at = "for"
    /\ kc.queue = <<>>
    /\ kctl' = NoCompile
    /\ kop' = [call |-> "GetUnit", ki |-> 0, idx |-> NoIndex]
    /\ UNCHANGED kc

\* for _, ki := range queue { kc.compileConstant(ki)
compileConstant ==
    /\ kctl.at = "range"
    /\ kctl.batch # <<>>
    /\ kctl' = [kctl EXCEPT !.at = "process", !.ki = Head(kctl.batch),
                            !.batch = Tail(kctl.batch),
                            !.instrs = kc.constants[Head(kctl.batch)]]
    /\ UNCHANGED <<kc, kop>>

\* The range over queue is over.
CompileQueue_next ==
    /\ kctl.at = "range"
    /\ kctl.batch = <<>>
    /\ kctl' = [kctl EXCEPT !.at = "for"]
    /\ UNCHANGED <<kc, kop>>

\* instr.ProcessInstr(instrCompiler{c.Lines[i], kc}) of an instruction that
\* refers to a constant.
ProcessInstr ==
    /\ kctl.at = "process"
    /\ kctl.instrs # <<>>
    /\ kc' = QueueConstant(kc, Head(kctl.instrs))
    /\ kop' = [call |-> "QueueConstant", ki |-> Head(kctl.instrs),
               idx |-> QueueConstantIndex(kc, Head(kctl.instrs))]
    /\ kctl' = [kctl EXCEPT !.instrs = Tail(@)]

\* kc.addCompiled(...), then the test of CompileQueue on the index of ki.
addCompiled ==
    /\ kctl.at = "process"
    /\ kctl.instrs = <<>>
    /\ kc' = [kc EXCEPT !.builder = Append(@, kctl.ki),
                        !.compiledCount = @ + 1]
    /\ kctl' = [kctl EXCEPT !.at = IF kc.constantMap[kctl.ki] # kc'.compiledCount - 1
                                   THEN "panic" ELSE "range"]
    /\ UNCHANGED kop

\* The statements of CompileQueue.
CompileQueue_step ==
    \/ CompileQueue_for
    \/ CompileQueue_return
    \/ compileConstant
    \/ CompileQueue_next
    \/ ProcessInstr
    \/ addCompiled

KeepsPool == UNCHANGED <<poolVars, flagVars, mxVars>>

NextCompiler ==
    \/ \E t \in ConstantTables : NewConstantCompiler(t) /\ KeepsPool
    \/ \E ki \in Keys : QueueConstantCall(ki) /\ KeepsPool
    \/ CompileQueue_call /\ KeepsPool
    \/ CompileQueue_for /\ KeepsPool
    \/ CompileQueue_return /\ KeepsPool
    \/ compileConstant /\ KeepsPool
    \/ CompileQueue_next /\ KeepsPool
    \/ ProcessInstr /\ KeepsPool
    \/ addCompiled /\ KeepsPool

\* CompileQueue, once called, runs on.
SpecCompiler ==
    Init /\ [][NextCompiler]_vars /\ WF_vars(CompileQueue_step /\ KeepsPool)

(***************************************************************************)
(* Vocabulary of the properties                                            *)
(***************************************************************************)
Extractions == {"ExtractDeadMarked", "ExtractAllMarked"}
\* The marks whose weakRef died while marked: those addPendingGC appended to
\* the pending queue.
Enqueued ==
    {refs[i].markOrder : i \in {j \in 1..Len(refs) :
        refs[j].status = wrDead /\ refs[j].markOrder > 0}}
\* The record registered for the address of o, 0 when there is none.
RefOf(o) == weakrefs[ObjAddr(o)]
\* o has a weakRef of its own in the registry with a positive mark order.
RegisteredMarked(o) ==
    /\ RefOf(o) # 0
    /\ refs[RefOf(o)].w = getwiface(IfaceOf(o))
    /\ refs[RefOf(o)].markOrder > 0
NoDuplicates(l) == \A i, j \in 1..Len(l) : i # j => l[i] # l[j]

(***************************************************************************)
(* C1  Exactly-once delivery.                                              *)
(***************************************************************************)
\* C1 as claimed: a marked value that addPendingGC appended to the pending
\* queue is returned by ExtractDeadMarked: after a call of ExtractDeadMarked
\* every mark enqueued so far has been returned by ExtractDeadMarked, and
\* ExtractDeadMarked returns no enqueued mark a second time.
C1_ExactlyOnceByExtractDead ==
    [][op'.name = "ExtractDeadMarked" =>
          /\ Enqueued' \subseteq retDead'
          /\ Range(op'.ord) \cap retDead = {}]_vars

\* C1 as amended: a marked value that addPendingGC appended to the pending
\* queue is returned exactly once by the calls that drain that queue,
\* ExtractDeadMarked or ExtractAllMarked: after either call every mark
\* enqueued so far has been returned, and neither returns a mark that an
\* earlier extraction returned.
C1_ExactlyOnce ==
    [][op'.name \in Extractions =>
          /\ Enqueued' \subseteq retDead' \cup retAll'
          /\ NoDuplicates(op'.ord)
          /\ Range(op'.ord) \cap Enqueued' \cap (retDead \cup retAll) = {}]_vars

\* A dead marked value was handed out by ExtractDeadMarked.
C1_Witness ==
    /\ op.name = "ExtractDeadMarked"
    /\ op.ret # <<>>
    /\ Range(op.ord) \subseteq Enqueued

(***************************************************************************)
(* C2  Reverse marking order.                                              *)
(***************************************************************************)
\* C2: every list an extraction returns holds its values by strictly
\* descending mark order: the value at position i carries the mark op.ord[i],
\* and a value marked earlier comes later.
C2_ReverseMarkOrder ==
    op.name \in Extractions =>
        /\ Len(op.ret) = Len(op.ord)
        /\ \A i, j \in 1..Len(op.ord) : i < j => op.ord[i] > op.ord[j]

\* An extraction returned two different values.
C2_Witness ==
    /\ op.name \in Extractions
    /\ Len(op.ret) >= 2
    /\ op.ret[1] # op.ret[2]

(***************************************************************************)
(* C3  Resurrection defers death.                                          *)
(***************************************************************************)
\* C3: addPendingGC on a value whose weakRef is Resurrected leaves the pending
\* queue and the registry as they are and the weakRef not Dead; and whenever
\* addPendingGC appends to the pending queue, the weakRef was not Resurrected.
C3_ResurrectionDefersDeath ==
    [][op'.name = "addPendingGC" /\ RefOf(op'.arg) # 0 =>
          LET r == RefOf(op'.arg) IN
          /\ refs[r].status = wrResurrected =>
                /\ pending' = pending
                /\ weakrefs' = weakrefs
                /\ refs'[r].status # wrDead
          /\ pending' # pending => refs[r].status = wrAlive]_vars

\* addPendingGC ran on a Resurrected weakRef: it is still registered, Alive.
C3_Witness ==
    /\ op.name = "addPendingGC"
    /\ RefOf(op.arg) # 0
    /\ refs[RefOf(op.arg)].status = wrAlive
    /\ refs[RefOf(op.arg)].markOrder > 0

(***************************************************************************)
(* C4  Get is canonical.                                                   *)
(***************************************************************************)
\* Every registered weakRef is registered under the id of its own value, and
\* under that id only.
RegistryKeyed ==
    \A a \in Addr : weakrefs[a] # 0 => id(refs[weakrefs[a]].w) = a

C5_GetValueRoundTrip ==
    [][op.name = "Get" /\ op'.name = "Value" /\ op'.arg = op.arg =>
          op'.ret = IfaceOf(op.arg)]_vars

(***************************************************************************)
(* C6  Weak observation.                                                   *)
(***************************************************************************)
\* C6: Value on the weakRef obtained for a value the collector has reclaimed
\* returns nil.
C6_ReclaimedGivesNil ==
    op.name = "Value" /\ heap[op.arg] = "freed" => op.ret = NilIface

(***************************************************************************)
(* C7  Shutdown drain is complete and idempotent.                          *)
(***************************************************************************)
\* The values marked at this moment: those in the pending queue and those of
\* the registered weakRefs with a positive mark order.
MarkedNow ==
    {pending[i].val : i \in 1..Len(pending)}
        \cup {iface(refs[weakrefs[a]].w) : a \in {b \in Addr :
                weakrefs[b] # 0 /\ refs[weakrefs[b]].markOrder > 0}}

\* C7: ExtractAllMarked returns exactly the values marked when it is called,
\* leaves the pending queue empty and no registered weakRef marked, and an
\* ExtractAllMarked that follows it at once returns the empty list.
C7_DrainCompleteIdempotent ==
    [][op'.name = "ExtractAllMarked" =>
          /\ Range(op'.ret) = MarkedNow
          /\ pending' = <<>>
          /\ MarkedNow' = {}
          /\ op.name = "ExtractAllMarked" => op'.ret = <<>>]_vars

\* ExtractAllMarked returned a value from the pending queue together with a
\* value that was still alive in the registry.
C7_Witness ==
    /\ op.name = "ExtractAllMarked"
    /\ Range(op.ord) \cap Enqueued # {}
    /\ Range(op.ord) \ Enqueued # {}

(***************************************************************************)
(* C8  No finalization after the shutdown drain.                           *)
(***************************************************************************)
\* C8: no extraction returns a mark that an earlier ExtractAllMarked returned.
C8_NoReturnAfterDrain ==
    [][op'.name \in Extractions => Range(op'.ord) \cap retAll = {}]_vars

\* The only weakRef was marked, drained by ExtractAllMarked while its
\* finalizer was queued or before it died, and addPendingGC then ran on it.
C8_Witness ==
    /\ op.name = "addPendingGC"
    /\ retAll = {1}
    /\ lastMarkOrder = 1
    /\ Len(refs) = 1
    /\ refs[1].status = wrDead
    /\ refs[1].markOrder = 0

(***************************************************************************)
(* C9  No double extraction.                                               *)
(***************************************************************************)
\* C9: no extraction returns a mark an earlier extraction returned, no
\* returned list holds a value twice, and no value is at once in the pending
\* queue and in the registry with a positive mark order.
C9_NoDoubleExtraction ==
    [][/\ op'.name \in Extractions =>
            /\ Range(op'.ord) \cap (retDead \cup retAll) = {}
            /\ NoDuplicates(op'.ret)
       /\ \A o \in Obj : ~(InPending(o)' /\ RegisteredMarked(o)')]_vars

(***************************************************************************)
(* C10  Mark guarantees later delivery.                                    *)
(***************************************************************************)
\* C10: after a call of ExtractDeadMarked no value is left that was marked,
\* died (its memory is reclaimed) and whose mark ExtractDeadMarked has never
\* returned.
C10_MarkedIsDelivered ==
    op.name = "ExtractDeadMarked" =>
        \A o \in Obj :
            heap[o] = "freed" /\ RegisteredMarked(o) =>
                refs[RefOf(o)].markOrder \in retDead

(***************************************************************************)
(* C11  Remarking.                                                         *)
(***************************************************************************)
\* Every mark order handed out so far: those of the weakRefs, of the pending
\* queue and of the values already returned.
AssignedOrders ==
    {refs[i].markOrder : i \in 1..Len(refs)} \cup Range(orders(pending))
        \cup retDead \cup retAll

\* C11: Mark gives the weakRef of its value the mark order lastMarkOrder, which
\* is greater than every mark order handed out before; when the value had a
\* weakRef in the registry, Mark keeps that weakRef and the registry as they
\* are (no second entry); and a list ExtractDeadMarked returns holds each
\* value once, by descending mark order.
C11_RemarkMovesLater ==
    [][/\ op'.name = "Mark" =>
            LET r == weakrefs'[ObjAddr(op'.arg)] IN
            /\ r # 0
            /\ refs'[r].markOrder = lastMarkOrder'
            /\ \A m \in AssignedOrders : refs'[r].markOrder > m
            /\ RefOf(op'.arg) # 0 =>
                  /\ weakrefs' = weakrefs
                  /\ Len(refs') = Len(refs)
                  /\ \A i \in 1..Len(refs) : i # r => refs'[i] = refs[i]
            /\ Cardinality({a \in Addr : weakrefs'[a] = r}) = 1
       /\ op'.name = "ExtractDeadMarked" =>
            /\ NoDuplicates(op'.ret)
            /\ \A i, j \in 1..Len(op'.ord) : i < j => op'.ord[i] > op'.ord[j]]_vars

\* Mark(A); Mark(B); Mark(A), both died: ExtractDeadMarked returned [A, B],
\* A with the mark of its second Mark.
C11_Witness ==
    /\ op.name = "ExtractDeadMarked"
    /\ op.ret = <<IfaceOf(1), IfaceOf(2)>>
    /\ op.ord = <<3, 2>>
    /\ Len(refs) = 2
    /\ refs[1].markOrder = 3
    /\ retAll = {}

(***************************************************************************)
(* C12  At most once per history.                                          *)
(***************************************************************************)
\* The weakRefs that died marked: addPendingGC appended the value of each of
\* them to the pending queue, once.
DiedMarked == {i \in 1..Len(refs) : refs[i].status = wrDead /\ refs[i].markOrder > 0}

\* C12 as claimed: over the whole history a value is appended to the pending
\* queue at most once: no two weakRefs of the same value died marked.
C12_AppendedOncePerHistory ==
    \A i, j \in DiedMarked : refs[i].w = refs[j].w => i = j

\* C12 as amended: a value is appended to the pending queue at most once for
\* each of its weakRefs: an append adds one entry, for a value that is not in
\* the queue, with a positive mark order that was never appended or returned
\* before, and every earlier append of that value has been returned by an
\* extraction.
C12_AppendedOncePerMark ==
    [][op'.name = "addPendingGC" /\ pending' # pending =>
          LET e == pending'[Len(pending')] IN
          /\ pending' = Append(pending, e)
          /\ e.val \notin Range(vals(pending))
          /\ e.order > 0
          /\ e.order \notin Enqueued \cup retDead \cup retAll
          /\ \A i \in DiedMarked :
                refs[i].w = getwiface(e.val) => refs[i].markOrder \in retDead \cup retAll]_vars

\* A value that died marked was returned, marked again and appended again.
C12_Witness ==
    /\ op.name = "addPendingGC"
    /\ \E i, j \in DiedMarked : i # j /\ refs[i].w = refs[j].w
    /\ pending # <<>>

(***************************************************************************)
(* C13  Dual flags.                                                        *)
(***************************************************************************)
\* The marks of the weakRefs that died with flag f.
EnqueuedFor(f) ==
    {refs[i].markOrder : i \in {j \in 1..Len(refs) :
        refs[j].status = wrDead /\ HasFlag(flags[j], f)}}

MarkedFor(q, f) ==
    Range(orders(q)) \cup {refs[weakrefs[a]].markOrder : a \in FlaggedIds(f)}
\* The weakRefs with flag f.
WithFlag(f) == {i \in DOMAIN flags : HasFlag(flags[i], f)}

C15_NonPointerHarmless ==
    [][/\ op'.name = "GetNonPointer" => op'.ret # "throw"
       /\ op'.name = "MarkNonPointer" =>
            /\ op'.ret # "throw"
            /\ UNCHANGED <<weakrefs, pending, lastMarkOrder>>]_vars

(***************************************************************************)
(* C17  WeakRef state machine.                                             *)
(***************************************************************************)
\* The weakRef numbers in the registry.
InRegistry == {weakrefs[a] : a \in Addr} \ {0}

\* C17: a new weakRef is Alive; Value on an Alive or Resurrected weakRef makes
\* it Resurrected and returns its value, Value on a Dead one returns nil and
\* no other Value does; addPendingGC makes a Resurrected weakRef Alive, arms
\* the finalizer again and keeps it registered, and makes an Alive one Dead,
\* appends its value to the pending queue exactly when it is marked and
\* removes it from the registry; nothing else changes a status, and a Dead
\* weakRef never changes again.
C17_StateMachine ==
    [][/\ Len(refs') > Len(refs) =>
            /\ Len(refs') = Len(refs) + 1
            /\ refs'[Len(refs')].status = wrAlive
       /\ \A i \in 1..Len(refs) :
            /\ (refs[i].status = wrDead) => (refs'[i] = refs[i])
            /\ (refs'[i].status # refs[i].status) => (op'.name \in {"Value", "addPendingGC"})
       /\ op'.name = "Value" =>
            LET r == lastGet[op'.arg] IN
            IF refs[r].status = wrDead
            THEN op'.ret = NilIface
            ELSE /\ refs'[r].status = wrResurrected
                 /\ op'.ret = iface(refs[r].w)
                 /\ op'.ret # NilIface
       /\ op'.name = "addPendingGC" /\ RefOf(op'.arg) # 0 =>
            LET r == RefOf(op'.arg) IN
            IF refs[r].status = wrResurrected
            THEN /\ refs'[r].status = wrAlive
                 /\ op'.arg \in fin'
                 /\ weakrefs' = weakrefs
                 /\ pending' = pending
            ELSE /\ refs[r].status = wrAlive
                 /\ refs'[r].status = wrDead
                 /\ r \notin InRegistry'
                 /\ pending' = IF refs[r].markOrder > 0
                               THEN Append(pending, [val |-> IfaceOf(op'.arg),
                                                     order |-> refs[r].markOrder])
                               ELSE pending]_vars

\* Value returned nil for a weakRef that died unmarked: nothing was enqueued.
C17_Witness ==
    /\ op.name = "Value"
    /\ op.ret = NilIface
    /\ refs[lastGet[op.arg]].markOrder = 0
    /\ Enqueued = {}

(***************************************************************************)
(* C19  Registry / status invariant.                                       *)
(***************************************************************************)
\* C19: between the calls of the pool (the mutex is free) a weakRef is in the
\* registry exactly when its status is Alive or Resurrected.
C19_RegistryIffNotDead ==
    \A i \in 1..Len(refs) :
        i \in InRegistry <=> refs[i].status \in {wrAlive, wrResurrected}

\* One weakRef is Dead and out of the registry, another one is registered and
\* Resurrected.
C19_Witness ==
    /\ \E i \in 1..Len(refs) : refs[i].status = wrDead /\ i \notin InRegistry
    /\ \E i \in InRegistry : refs[i].status = wrResurrected

(***************************************************************************)
(* C20  Mark-order counter.                                                *)
(***************************************************************************)
\* The mark orders of the registered weakRefs and of the pending queue, one
\* entry for each of them.
OrdersHeld ==
    [i \in 1..Cardinality(InRegistry) |->
        refs[CHOOSE r \in InRegistry : Cardinality({q \in InRegistry : q < r}) = i - 1].markOrder]
        \o orders(pending)
PositiveOnce(l) == \A i, j \in 1..Len(l) : (i # j /\ l[i] > 0) => l[i] # l[j]
OrdersInRange ==
    /\ \A r \in InRegistry : refs[r].markOrder \in 0..lastMarkOrder
    /\ \A m \in Range(orders(pending)) : m \in 1..lastMarkOrder
    /\ PositiveOnce(OrdersHeld)

\* C20: lastMarkOrder starts at 0 and never decreases; Mark, and nothing
\* else, changes it: by one, and the weakRef of the marked value gets the new
\* value; every mark order in the registry is 0 or in 1..lastMarkOrder, every
\* one in the pending queue is in 1..lastMarkOrder, and no positive mark order
\* is held twice in the registry and the pending queue.
C20_MarkOrderCounter ==
    /\ lastMarkOrder = 0
    /\ [][/\ lastMarkOrder' >= lastMarkOrder
          /\ (lastMarkOrder' # lastMarkOrder) => (op'.name = "Mark")
          /\ op'.name = "Mark" =>
               /\ lastMarkOrder' = lastMarkOrder + 1
               /\ refs'[weakrefs'[ObjAddr(op'.arg)]].markOrder = lastMarkOrder'
          /\ OrdersInRange
          /\ OrdersInRange']_vars

\* Two marked weakRefs in the registry and the pending queue after a second
\* Mark.
C20_Witness ==
    /\ op.name = "Mark"
    /\ lastMarkOrder = 2
    /\ Len(OrdersHeld) = 2
    /\ pending # <<>>
    /\ \A i \in 1..2 : OrdersHeld[i] > 0

(***************************************************************************)
(* C16  Serializability under asynchronous callbacks.                      *)
(***************************************************************************)
\* A call that has reached the statement releasing the mutex can take its
\* step as a whole call there.
CanLinearize ==
    /\ pc.owner = "Get_Unlock" => ENABLED Get_Unlock
    /\ pc.owner = "Mark_Unlock" => ENABLED Mark_Unlock
    /\ pc.owner = "Value_Unlock" => ENABLED Value_Unlock
    /\ pc.owner = "ExtractDeadMarked_UnlockNil" => ENABLED ExtractDeadMarked_UnlockNil
    /\ pc.owner = "ExtractDeadMarked_Unlock" => ENABLED ExtractDeadMarked_Unlock
    /\ pc.owner = "ExtractAllMarked_Unlock" => ENABLED ExtractAllMarked_Unlock
    /\ pc.finalizer = "addPendingGC_Unlock" => ENABLED addPendingGC_Unlock
\* The marks addPendingGC appended to p.pending, and where a mark can be.
EnqueuedMem ==
    {mem.refs[i].markOrder : i \in {j \in 1..Len(mem.refs) :
        mem.refs[j].status = wrDead /\ mem.refs[j].markOrder > 0}}
InQueue == Range(orders(mem.pending))
Taken == Range(orders(loc.owner.vs))

\* C16: with the statements of the owner's calls and of the callbacks
\* interleaved at will, the calls take effect in the order in which they
\* release the mutex: each call can take its step as a whole call when it
\* releases the mutex, whenever the mutex is free the fields of the pool are
\* those the whole calls produced in that order, each call returns what its
\* whole call returned, and an enqueued mark is in the queue, taken by the
\* running extraction or returned, and never both in the queue and taken or
\* returned once the mutex is free.
C16_Serializable ==
    /\ []CanLinearize
    /\ [][/\ (mx' = "free") => (mem' = PoolState')
          /\ (pc.owner = "Get_Unlock" /\ pc'.owner = "idle")
                => (op'.name = "Get" /\ op'.ret = loc.owner.r)
          /\ (pc.owner = "Value_Unlock" /\ pc'.owner = "idle")
                => (op'.name = "Value" /\ <<op'.ret>> = loc.owner.res)
          /\ (pc.owner = "ExtractDeadMarked_UnlockNil" /\ pc'.owner = "idle")
                => (op'.name = "ExtractDeadMarked" /\ op'.ret = <<>>)
          /\ (pc.owner = "ExtractDeadMarked_return" /\ pc'.owner = "idle")
                => (runPrefinalizers(vals(loc.owner.vs)) = loc.owner.expect)
          /\ (pc.owner = "ExtractAllMarked_return" /\ pc'.owner = "idle")
                => (runPrefinalizers(vals(loc.owner.vs)) = loc.owner.expect)
          /\ EnqueuedMem' \subseteq (InQueue' \cup Taken' \cup retDead' \cup retAll')
          /\ (mx' # "owner") => (InQueue' \cap (Taken' \cup retDead' \cup retAll') = {})
         ]_vars

\* A callback appended to the pending queue while ExtractDeadMarked, the
\* mutex released, had still to sort and return what it took.
C16_Witness ==
    /\ pc.owner \in {"ExtractDeadMarked_Sort", "ExtractDeadMarked_return"}
    /\ loc.owner.vs # <<>>
    /\ op.name = "addPendingGC"
    /\ mem.pending # <<>>

(***************************************************************************)
(* C18  Lock discipline.                                                   *)
(***************************************************************************)
\* The statements between p.mx.Lock() and p.mx.Unlock().
UnderLock ==
    {"Get_get", "Get_Unlock", "Mark_get", "Mark_Unlock", "Value_status",
     "Value_Unlock", "ExtractDeadMarked_take", "ExtractDeadMarked_UnlockNil",
     "ExtractDeadMarked_Unlock", "ExtractAllMarked_start",
     "ExtractAllMarked_range", "ExtractAllMarked_Unlock", "addPendingGC_body",
     "addPendingGC_Unlock"}
\* Sorting, and the pre-finalization hook on the way out.
AfterLock ==
    {"ExtractDeadMarked_Sort", "ExtractDeadMarked_return",
     "ExtractAllMarked_Sort", "ExtractAllMarked_return"}

\* C18: a goroutine is at a statement that reads or writes the registry, the
\* pending queue, the mark counter or a weakRef exactly when it holds the
\* mutex; it holds no mutex once its method returned, on the early exit of
\* ExtractDeadMarked as on every other path, nor while an extraction sorts
\* and runs the pre-finalization hook; and a step that changes a field of
\* the pool is a step of the goroutine holding the mutex.
C18_LockDiscipline ==
    [][/\ \A t \in Threads :
            /\ (pc'[t] \in UnderLock) => (mx' = t)
            /\ (pc'[t] \in AfterLock \cup {"idle"}) => (mx' # t)
            /\ pc'[t] \in UnderLock \cup AfterLock \cup {"idle"}
       /\ (mem' # mem) =>
            /\ mx \in Threads
            /\ mx' = mx
            /\ \A t \in Threads \ {mx} : pc'[t] = pc[t] /\ loc'[t] = loc[t]
      ]_vars

\* ExtractDeadMarked is about to run the pre-finalization hook on what it
\* took while a callback holds the mutex.
C18_Witness ==
    /\ pc.owner = "ExtractDeadMarked_return"
    /\ loc.owner.vs # <<>>
    /\ mx = "finalizer"
    /\ pc.finalizer = "addPendingGC_body"

(***************************************************************************)
(* C21  Get leaves an existing weakRef unchanged.                          *)
(***************************************************************************)
\* The token of the value the call is about has an entry in the registry.
TokenRegistered(o) == weakrefs[id(getwiface(IfaceOf(o)))] # 0

\* C21: Get on a value whose token is in the registry changes no weakRef,
\* arms no finalizer and leaves the registry, the pending queue and
\* lastMarkOrder as they are; Mark on such a value adds no weakRef, no
\* registry entry and arms no finalizer; and a weakRef is added, or an entry
\* put in the registry, only by a Get or a Mark on a value whose token has no
\* entry, which adds one weakRef, Alive and unmarked by Get, registers it
\* under the token and arms the finalizer of the value.
C21_GetLeavesExisting ==
    [][/\ (op'.name = "Get" /\ TokenRegistered(op'.arg)) =>
            /\ refs' = refs
            /\ fin' = fin
            /\ weakrefs' = weakrefs
            /\ pending' = pending
            /\ lastMarkOrder' = lastMarkOrder
       /\ (op'.name = "Mark" /\ TokenRegistered(op'.arg)) =>
            /\ Len(refs') = Len(refs)
            /\ fin' = fin
            /\ weakrefs' = weakrefs
       /\ (Len(refs') # Len(refs) \/ (\E a \in Addr : weakrefs'[a] \notin {0, weakrefs[a]})) =>
            /\ op'.name \in {"Get", "Mark"}
            /\ ~TokenRegistered(op'.arg)
            /\ Len(refs') = Len(refs) + 1
            /\ weakrefs' = [weakrefs EXCEPT ![ObjAddr(op'.arg)] = Len(refs')]
            /\ refs'[Len(refs')].status = wrAlive
            /\ (op'.name = "Get") => (refs'[Len(refs')].markOrder = 0)
            /\ fin' = fin \cup {op'.arg}
      ]_vars

\* Get returned the weakRef of a value that was marked and whose Value had
\* been taken.
C21_Witness ==
    /\ op.name = "Get"
    /\ refs[op.ret].markOrder > 0
    /\ refs[op.ret].status = wrResurrected

(***************************************************************************)
(* C22  A spurious callback is ignored.                                    *)
(***************************************************************************)
\* C22: addPendingGC on a value whose token has no entry in the registry
\* leaves the registry, the pending queue, lastMarkOrder and every weakRef
\* as they are and sets no finalizer.
C22_SpuriousIgnored ==
    [][(op'.name = "addPendingGC" /\ ~TokenRegistered(op'.arg)) =>
          /\ weakrefs' = weakrefs
          /\ pending' = pending
          /\ lastMarkOrder' = lastMarkOrder
          /\ refs' = refs
          /\ fin' = fin]_vars

\* addPendingGC ran on a value the owner holds and the registry does not
\* know, while the pool held a weakRef and a pending value.
C22_Witness ==
    /\ op.name = "addPendingGC"
    /\ op.arg \in held
    /\ op.arg \notin fin
    /\ ~TokenRegistered(op.arg)
    /\ pending # <<>>
    /\ \E a \in Addr : weakrefs[a] # 0

(***************************************************************************)
(* C23  ExtractDeadMarked is repeatable and empties the queue.             *)
(***************************************************************************)
\* The values of a list of ordered values, each with its mark order.
Entries(vs) == {<<vs[i].val, vs[i].order>> : i \in 1..Len(vs)}

\* C23: ExtractDeadMarked returns the values that are in the pending queue
\* when it is called, each once and no other, and leaves the queue empty; it
\* returns no mark an earlier ExtractDeadMarked returned; on an empty queue it
\* returns the empty list; and it changes no weakRef, nor the registry, nor
\* lastMarkOrder.
C23_ExtractDeadRepeatable ==
    [][(op'.name = "ExtractDeadMarked") =>
          /\ Len(op'.ret) = Len(pending)
          /\ Len(op'.ord) = Len(pending)
          /\ {<<op'.ret[i], op'.ord[i]>> : i \in 1..Len(op'.ret)} = Entries(pending)
          /\ pending' = <<>>
          /\ Range(op'.ord) \cap retDead = {}
          /\ (pending = <<>>) => (op'.ret = <<>>)
          /\ refs' = refs
          /\ weakrefs' = weakrefs
          /\ lastMarkOrder' = lastMarkOrder]_vars

\* ExtractDeadMarked returned a value that died after an earlier
\* ExtractDeadMarked had returned another.
C23_Witness ==
    /\ op.name = "ExtractDeadMarked"
    /\ op.ret # <<>>
    /\ retDead \ Range(op.ord) # {}

(***************************************************************************)
(* C24  No stale registry entries.                                         *)
(***************************************************************************)
\* The finalizer of o is set, or queued and still to run.
Armed(o) == o \in fin \cup sched
\* The values the weakRef registered under a is the weakRef of.
ValuesOf(a) == Deref(iface(refs[weakrefs[a]].w))

\* C24: every weakRef in the registry is the weakRef of a value that has not
\* been reclaimed and whose finalizer is armed, and the weakRef Get returns
\* for a value is a weakRef of that value.
C24_NoStaleEntries ==
    [][/\ \A a \in Addr : (weakrefs'[a] # 0) =>
            /\ ValuesOf(a)' # {}
            /\ \A o \in ValuesOf(a)' : Armed(o)'
       /\ (op'.name = "Get") =>
            (refs'[op'.ret].w = getwiface(IfaceOf(op'.arg)))
      ]_vars

(***************************************************************************)
(* C25  ConstantCompiler index consistency.                                *)
(***************************************************************************)
\* The constants QueueConstant has queued so far.
QueuedKeys == {k \in Keys : Created /\ kc.constantMap[k] # NoIndex}

\* C25: QueueConstant(ki) on a queued ki returns the index it returned before
\* and queues nothing, and on another ki returns the next index and puts ki
\* at the end of the queue; the constants in the builder are distinct, the
\* constant at position i is the one QueueConstant gave index i, so that they
\* stand in queueing order; the panic of CompileQueue is never reached; when
\* CompileQueue returns every queued constant is in the builder; and
\* CompileQueue, once called, returns.
C25_ConstantIndexes ==
    /\ [][/\ (kop' # kop /\ kop'.call = "QueueConstant") =>
                IF Queued(kc, kop'.ki)
                THEN /\ kop'.idx = kc.constantMap[kop'.ki]
                     /\ kc' = kc
                ELSE /\ kop'.idx = Cardinality(QueuedKeys)
                     /\ kc'.queue = Append(kc.queue, kop'.ki)
                     /\ kc'.constantMap = [kc.constantMap EXCEPT ![kop'.ki] = kop'.idx]
             /\ \A k \in QueuedKeys : kc'.constantMap[k] = kc.constantMap[k]
             /\ NoDuplicates(kc'.builder)
             /\ \A i \in 1..Len(kc'.builder) : kc'.constantMap[kc'.builder[i]] = i - 1
             /\ kctl'.at # "panic"
             /\ (kop' # kop /\ kop'.call = "GetUnit") =>
                    (Len(kc'.builder) = Cardinality(QueuedKeys'))
         ]_vars
    /\ (kctl.at # "idle") ~> (kctl.at = "idle")

\* CompileQueue returned a unit in which a constant queued while another was
\* compiled stands after a constant that was queued before the call.
C25_Witness ==
    /\ kop.call = "GetUnit"
    /\ Len(kc.builder) = MaxConst
    /\ kc.constants[kc.builder[1]] # <<>>
    /\ kc.builder[3] \in Range(kc.constants[kc.builder[1]])
    /\ kc.constantMap[kc.builder[3]] = 2

====
